---------------------------- MODULE Spec2Model ----------------------------
(***************************************************************************)
(* State-machine model of the rustzx core: the banked memory (ZXMemory),   *)
(* the bus controller (ZXController) and the rotate micro-operation of the *)
(* Z80 (execute_rot).                                                      *)
(*                                                                         *)
(* The specifications are defined over one set of variables:               *)
(*   SpecMem    - a ZXMemory on its own, built by ZXMemory::new with any   *)
(*                ROM/RAM type; read, remap and the 0x7FFD slot updates;   *)
(*   SpecMemRW  - the same memory, driven through read/write/remap/        *)
(*                load_rom with attention to the bytes held by the pools;  *)
(*   Spec       - a ZXController built by ZXController::new, driven        *)
(*                through the Z80Bus contract and the frontend calls;      *)
(*   SpecClock  - the controller's frame clock under waits of any length;  *)
(*   SpecKeys   - the controller's keyboard matrix under send_key;         *)
(*   SpecUla    - the ULA port with the keyboard and a tape that plays;    *)
(*   SpecBus    - port reads at every frame clock over a screen that holds *)
(*                data (the floating bus);                                 *)
(*   SpecIo     - port reads and writes of every contention kind at every  *)
(*                frame clock (the timing of IO), and the border set by    *)
(*                the frontend;                                            *)
(*   SpecBanks  - the memory with one offset written and read through two  *)
(*                slots that are remapped and paged (the RAM banks);       *)
(*   SpecRot    - execute_rot on a register, from any byte;                *)
(*   SpecRotMem - execute_rot on a byte of RAM.                            *)
(***************************************************************************)
EXTENDS Integers, Sequences, FiniteSets, TLC

VARIABLES
    rom,            \* ZXMemory.rom, kept sparse: index -> nonzero byte
    ram,            \* ZXMemory.ram, kept sparse: index -> nonzero byte
    rom_size,       \* rom.len()
    ram_size,       \* ram.len()
    map,            \* ZXMemory.map: slot 0..3 -> Page
    machine,        \* ZXController.machine ("none": no controller, memory alone)
    kempston,       \* ZXController.kempston.is_some()
    keyboard,       \* ZXController.keyboard: row 0..7 -> byte
    border_color,   \* ZXController.border_color as its 3-bit code
    frame_clocks,   \* ZXController.frame_clocks
    passed_frames,  \* ZXController.passed_frames
    events,         \* ZXController.events, a set of event names
    mic,            \* ZXController.mic
    ear,            \* ZXController.ear
    paging_enabled, \* ZXController.paging_enabled
    screen_bank,    \* ZXController.screen_bank
    tape_playing,   \* the tape collaborator: does it carry a signal
    tape_bit,       \* the tape collaborator: its current output bit
    regs,           \* Z80.regs: the 8-bit registers, name -> byte
    flags,          \* Z80.regs: the flags of register F, Flag name -> BOOLEAN
    trail,          \* log: the current run of one pure rotation on one operand
    call,           \* name of the last operation that ran
    args,           \* the arguments it was given
    ret             \* what the last operation returned, as a tagged tuple

memvars == <<rom, ram, rom_size, ram_size, map>>
ctlvars == <<machine, kempston, keyboard, border_color, frame_clocks,
             passed_frames, events, mic, ear, paging_enabled, screen_bank,
             tape_playing, tape_bit>>
cpuvars == <<regs, flags, trail>>
vars == <<memvars, ctlvars, cpuvars, call, args, ret>>

(***************************************************************************)
(* Bounds of the model.                                                    *)
(***************************************************************************)
MaxBlock == 4       \* remap is tried on blocks 0..MaxBlock
MaxFrames == 1      \* clock-advancing operations stop once passed_frames reaches it
MaxLag == 3         \* ... or once frame_clocks reaches MaxLag frames
MaxWait == 3        \* waits of 0..MaxWait T-states are tried (and a few long ones)
MaxRun == 16        \* a run of one pure rotation is logged up to MaxRun steps

(***************************************************************************)
(* Fixed-width integer helpers (u8 / u16 / usize bit operations).          *)
(***************************************************************************)
RECURSIVE BitAnd(_, _)
BitAnd(x, y) ==
    IF x = 0 \/ y = 0 THEN 0
    ELSE (x % 2) * (y % 2) + 2 * BitAnd(x \div 2, y \div 2)

RECURSIVE BitOr(_, _)
BitOr(x, y) ==
    IF x = 0 THEN y
    ELSE IF y = 0 THEN x
    ELSE (IF x % 2 = 1 \/ y % 2 = 1 THEN 1 ELSE 0) + 2 * BitOr(x \div 2, y \div 2)

RECURSIVE BitXor(_, _)
BitXor(x, y) ==
    IF x = 0 THEN y
    ELSE IF y = 0 THEN x
    ELSE (IF x % 2 # y % 2 THEN 1 ELSE 0) + 2 * BitXor(x \div 2, y \div 2)

\* !x on a u8
BitNot8(x) == 255 - x

\* x >> n
Shr(x, n) == x \div (2 ^ n)

(***************************************************************************)
(* ZXMemory                                                                *)
(***************************************************************************)
PAGE_SIZE == 16384
SIZE_16K == PAGE_SIZE
SIZE_32K == PAGE_SIZE * 2
SIZE_48K == PAGE_SIZE * 3
SIZE_64K == PAGE_SIZE * 4
SIZE_128K == PAGE_SIZE * 8
MEM_BLOCKS == 4

RomType == {"K16", "K32", "K64"}
RamType == {"K16", "K48", "K128"}

Ram(n) == [kind |-> "Ram", n |-> n]
Rom(n) == [kind |-> "Rom", n |-> n]

\* the map literal of ZXMemory::new, per RAM type
NewMap(ram_type) ==
    CASE ram_type = "K16"  -> [i \in 0..3 |-> IF i = 0 THEN Rom(0) ELSE Ram(0)]
      [] ram_type = "K48"  -> [i \in 0..3 |-> IF i = 0 THEN Rom(0) ELSE Ram(i - 1)]
      [] ram_type = "K128" -> [i \in 0..3 |->
                                 CASE i = 0 -> Rom(0)
                                   [] i = 1 -> Ram(5)
                                   [] i = 2 -> Ram(2)
                                   [] i = 3 -> Ram(0)]

NewRamSize(ram_type) ==
    CASE ram_type = "K16"  -> SIZE_16K
      [] ram_type = "K48"  -> SIZE_48K
      [] ram_type = "K128" -> SIZE_128K

NewRomSize(rom_type) ==
    CASE rom_type = "K16" -> SIZE_16K
      [] rom_type = "K32" -> SIZE_32K
      [] rom_type = "K64" -> SIZE_64K

\* vec![0; size]: no cell holds a nonzero byte
ZeroVec == [i \in {} |-> 0]

\* ZXMemory::new
MemNew(rom_type, ram_type) ==
    /\ rom = ZeroVec
    /\ ram = ZeroVec
    /\ rom_size = NewRomSize(rom_type)
    /\ ram_size = NewRamSize(ram_type)
    /\ map = NewMap(ram_type)

\* v[i] of a sparse byte vector
VecGet(v, i) == IF i \in DOMAIN v THEN v[i] ELSE 0

\* v[i] = b of a sparse byte vector
VecSet(v, i, b) ==
    [j \in (IF b = 0 THEN DOMAIN v \ {i} ELSE DOMAIN v \cup {i}) |->
        IF j = i THEN b ELSE v[j]]

\* (addr as usize) / PAGE_SIZE and addr as usize % PAGE_SIZE
SlotOf(addr) == addr \div PAGE_SIZE
AddrRel(addr) == addr % PAGE_SIZE

\* an index taken from the slot of the address, not from the page it maps
PoolIndexBySlot(m, addr) == SlotOf(addr) * PAGE_SIZE + AddrRel(addr)

\* the index read and write compute into the pool of the mapped page
PoolIndex(m, addr) == m[SlotOf(addr)].n * PAGE_SIZE + AddrRel(addr)

\* the length of the pool a page lives in
PoolSize(page) == IF page.kind = "Rom" THEN rom_size ELSE ram_size

\* what stands for an index outside the array (the call panics)
Panic == 0 - 1

\* ZXMemory::read: the byte, or Panic when the index is outside the pool
MemReadIn(m, r_rom, r_ram, addr) ==
    LET page == m[SlotOf(addr)]
        idx == PoolIndex(m, addr)
    IN  IF page.kind = "Rom"
        THEN IF idx < rom_size THEN VecGet(r_rom, idx) ELSE Panic
        ELSE IF idx < ram_size THEN VecGet(r_ram, idx) ELSE Panic

MemRead(addr) == MemReadIn(map, rom, ram, addr)

\* a write that does not look at the kind of the mapped page
MemWriteRamAnyPage(m, r_ram, addr, value) ==
    VecSet(r_ram, PoolIndex(m, addr), value)

\* ZXMemory::write: the RAM pool afterwards (ROM slots are ignored)
MemWriteRam(m, r_ram, addr, value) ==
    LET page == m[SlotOf(addr)]
    IN  IF page.kind = "Ram" THEN VecSet(r_ram, PoolIndex(m, addr), value) ELSE r_ram

\* does ZXMemory::write index outside the RAM pool
MemWritePanics(m, addr) ==
    m[SlotOf(addr)].kind = "Ram" /\ PoolIndex(m, addr) >= ram_size

\* a remap whose block test lets block MEM_BLOCKS through
RemapOkBlockOffByOne(block, page) ==
    /\ block <= MEM_BLOCKS
    /\ ~ (page.kind = "Ram" /\ (page.n + 1) * PAGE_SIZE > ram_size)
    /\ ~ (page.kind = "Rom" /\ (page.n + 1) * PAGE_SIZE > rom_size)

\* a remap whose pool test accepts the first page past the pool
RemapOkPageOffByOne(block, page) ==
    /\ block < MEM_BLOCKS
    /\ ~ (page.kind = "Ram" /\ page.n * PAGE_SIZE > ram_size)
    /\ ~ (page.kind = "Rom" /\ page.n * PAGE_SIZE > rom_size)

\* ZXMemory::remap: does the call return Ok(())
RemapOk(block, page) ==
    /\ block < MEM_BLOCKS
    /\ ~ (page.kind = "Ram" /\ (page.n + 1) * PAGE_SIZE > ram_size)
    /\ ~ (page.kind = "Rom" /\ (page.n + 1) * PAGE_SIZE > rom_size)

\* ZXMemory::remap: the map afterwards
RemapMap(m, block, page) ==
    IF RemapOk(block, page) THEN [m EXCEPT ![block] = page] ELSE m

\* ZXMemory::load_rom: does the call return Ok(())
LoadRomOk(page) == ~ ((page + 1) * PAGE_SIZE > rom_size)

\* ZXMemory::load_rom: does slice[..data.len()] reach past the page's slice
\* of PAGE_SIZE bytes (the call panics before it copies anything)
LoadRomPanics(page, data) == LoadRomOk(page) /\ Len(data) > PAGE_SIZE

\* clone_from_slice into the page's slice: data is a sequence of at most
\* PAGE_SIZE bytes, copied to shift, shift + 1, ...
RECURSIVE CopyFrom(_, _, _, _)
CopyFrom(v, shift, data, k) ==
    IF k > Len(data) \/ k > PAGE_SIZE THEN v
    ELSE CopyFrom(VecSet(v, shift + k - 1, data[k]), shift, data, k + 1)

\* ZXMemory::load_rom: the ROM pool afterwards; data is a sequence of bytes
LoadRomRom(r_rom, page, data) ==
    IF LoadRomOk(page) /\ ~LoadRomPanics(page, data)
    THEN CopyFrom(r_rom, page * PAGE_SIZE, data, 1)
    ELSE r_rom


(***************************************************************************)
(* The collaborators of the controller whose code lies outside the files   *)
(* modelled here: the machine's timing table, the key table, the tape,     *)
(* the joystick and the screen address helper.  They are modelled from     *)
(* their described interface.  The timing table is a scaled-down frame     *)
(* (a few dozen T-states instead of ~70000, two display rows instead of    *)
(* 192) with the same shape: top border, display rows made of a contended  *)
(* screen part and an uncontended border part, bottom border.  Every       *)
(* formula below is stated over the names, never over the numbers.         *)
(***************************************************************************)
Machines == {"48K", "128K"}

\* ZXMachine::specs()
Specs(m) ==
    IF m = "48K"
    THEN [clocks_frame |-> 44, clocks_line |-> 18, clocks_first_pixel |-> 6,
          clocks_screen_row |-> 16, interrupt_length |-> 2]
    ELSE [clocks_frame |-> 48, clocks_line |-> 19, clocks_first_pixel |-> 7,
          clocks_screen_row |-> 16, interrupt_length |-> 2]

CANVAS_HEIGHT == 2
CLOCKS_PER_COL == 4
ADDR_LD_BREAK == 1387

\* ZXMachine::contention_clocks: the ULA's stall pattern 6,5,4,3,2,1,0,0 over
\* the screen part of each display row, nothing elsewhere
ContentionPattern == <<6, 5, 4, 3, 2, 1, 0, 0>>

ContentionClocks(m, clocks) ==
    LET sp == Specs(m)
        origin == sp.clocks_first_pixel - 1
        through == clocks - origin
    IN  IF clocks < origin THEN 0
        ELSE IF through \div sp.clocks_line >= CANVAS_HEIGHT THEN 0
        ELSE IF through % sp.clocks_line >= sp.clocks_screen_row THEN 0
        ELSE ContentionPattern[((through % sp.clocks_line) % 8) + 1]

\* ZXMachine::bank_is_contended
BankIsContended(m, bank) ==
    IF m = "48K" THEN bank = 0 ELSE bank % 2 = 1

\* ZXMachine::port_is_contended: every even port
PortIsContended(m, port) == BitAnd(port, 1) = 0

\* utils::screen::bitmap_line_addr
BitmapLineAddr(row) ==
    16384 + BitAnd(row, 192) * 32 + BitAnd(row, 7) * 256 + BitAnd(row, 56) * 4

\* KempstonJoy::read of the default joystick: nothing pressed
KempstonRead == 0

\* ZXMemory::get_page / get_bank_type
GetPage(m, addr) == m[SlotOf(addr)]

\* Tape::process_clocks then Tape::current_bit: the bits the tape may show
\* after clk more T-states
TapeBits(clk) ==
    IF tape_playing /\ clk > 0 THEN BOOLEAN ELSE {tape_bit}

(***************************************************************************)
(* ZXController                                                            *)
(***************************************************************************)
\* the modulus of usize arithmetic.  The real 2^64 is outside the integers of
\* the model checker; 2^30 stands for it, far above every clock of the model.
\* (A build with overflow checks panics instead of wrapping.)
USIZE == 2 ^ 30

\* ZXController::new_frame: frame_clocks -= clocks_frame on a usize
NewFrame(m, fc) == (fc - Specs(m).clocks_frame) % USIZE

\* has wait_internal reached the end of the frame
FrameDone(m, fc) == fc >= Specs(m).clocks_frame

\* F applied to the value of v, with v evaluated once
With(v, F(_)) == CHOOSE r \in {F(x) : x \in {v}} : TRUE

\* wait_internal on the clock pair [fc, pf] (frame_clocks, passed_frames)
WaitInternalClk(m, c, clk) ==
    With(c, LAMBDA v :
        With(v.fc + clk, LAMBDA f :
            IF FrameDone(m, f)
            THEN [fc |-> NewFrame(m, f), pf |-> v.pf + 1]
            ELSE [fc |-> f, pf |-> v.pf]))

\* ZXController::addr_is_contended
AddrIsContended(m, mp, addr) ==
    LET page == GetPage(mp, addr)
    IN  IF page.kind = "Ram" THEN BankIsContended(m, page.n) ELSE FALSE

\* ZXController::do_contention
DoContention(m, c) ==
    With(c, LAMBDA v : WaitInternalClk(m, v, ContentionClocks(m, v.fc)))

\* ZXController::do_contention_and_wait
DoContentionAndWait(m, c, wait_time) ==
    With(c, LAMBDA v : WaitInternalClk(m, v, ContentionClocks(m, v.fc) + wait_time))

\* ZXController::io_contention_first
IoContentionFirst(m, mp, c, port) ==
    WaitInternalClk(m, IF AddrIsContended(m, mp, port) THEN DoContention(m, c) ELSE c, 1)

\* a late IO contention whose third stall of the address-contended case
\* also takes a T-state
IoContentionLastThirdStallPlusOne(m, mp, c, port) ==
    IF PortIsContended(m, port)
    THEN DoContentionAndWait(m, c, 2)
    ELSE IF AddrIsContended(m, mp, port)
    THEN DoContentionAndWait(m, DoContentionAndWait(m, DoContentionAndWait(m, c, 1), 1), 1)
    ELSE WaitInternalClk(m, c, 2)

\* ZXController::io_contention_last
IoContentionLast(m, mp, c, port) ==
    IF PortIsContended(m, port)
    THEN DoContentionAndWait(m, c, 2)
    ELSE IF AddrIsContended(m, mp, port)
    THEN DoContention(m, DoContentionAndWait(m, DoContentionAndWait(m, c, 1), 1))
    ELSE WaitInternalClk(m, c, 2)

\* ZXController::wait_mreq on the clock pair
WaitMreqClk(m, mp, c, addr, clk) ==
    WaitInternalClk(m, IF AddrIsContended(m, mp, addr) THEN DoContention(m, c) ELSE c, clk)

\* a send_key that clears with the mask itself, not with its complement
SendKeyRowMaskNotInverted(row, mask, pressed) ==
    LET cleared == BitAnd(row, mask)
    IN  IF ~pressed THEN BitOr(cleared, mask) ELSE cleared

\* a send_key whose release lifts every key of the row
SendKeyRowReleaseWholeRow(row, mask, pressed) ==
    LET cleared == BitAnd(row, BitNot8(mask))
    IN  IF ~pressed THEN 255 ELSE cleared

\* ZXController::send_key: the row afterwards
SendKeyRow(row, mask, pressed) ==
    LET cleared == BitAnd(row, BitNot8(mask))
    IN  IF ~pressed THEN BitOr(cleared, mask) ELSE cleared

\* a floating bus that takes one column per two T-states
FloatingBusValueOneColumnPerPair(m, mp, fc) ==
    LET sp == Specs(m)
        t == fc - (sp.clocks_first_pixel + 2)
        row == t \div sp.clocks_line
        clocks == t % sp.clocks_line
        col == clocks \div 2
    IN  IF fc < sp.clocks_first_pixel + 2 THEN 255
        ELSE IF /\ row < CANVAS_HEIGHT
                /\ clocks < sp.clocks_screen_row - CLOCKS_PER_COL
                /\ BitAnd(clocks, 4) = 0
        THEN IF clocks % 2 = 0
             THEN MemReadIn(mp, rom, ram, BitmapLineAddr(row) + col)
             ELSE MemReadIn(mp, rom, ram, 22528 + ((row \div 8) * 32 + col))
        ELSE 255

\* ZXController::floating_bus_value
FloatingBusValue(m, mp, fc) ==
    LET sp == Specs(m)
        t == fc - (sp.clocks_first_pixel + 2)
        row == t \div sp.clocks_line
        clocks == t % sp.clocks_line
        col == (clocks \div 8) * 2 + (clocks % 8) \div 2
    IN  IF fc < sp.clocks_first_pixel + 2 THEN 255
        ELSE IF /\ row < CANVAS_HEIGHT
                /\ clocks < sp.clocks_screen_row - CLOCKS_PER_COL
                /\ BitAnd(clocks, 4) = 0
        THEN IF clocks % 2 = 0
             THEN MemReadIn(mp, rom, ram, BitmapLineAddr(row) + col)
             ELSE MemReadIn(mp, rom, ram, 22528 + ((row \div 8) * 32 + col))
        ELSE 255

\* a paging write that keeps only two bits of the bank number
Write7ffdMapTwoBankBits(mp, val) ==
    RemapMap(RemapMap(mp, 3, Ram(BitAnd(val, 3))), 0, Rom(BitAnd(Shr(val, 4), 1)))

\* a paging write with the two blocks swapped
Write7ffdMapBlocksSwapped(mp, val) ==
    RemapMap(RemapMap(mp, 0, Ram(BitAnd(val, 7))), 3, Rom(BitAnd(Shr(val, 4), 1)))

\* the paging write of write_7ffd: the map afterwards
Write7ffdMap(mp, val) ==
    RemapMap(RemapMap(mp, 3, Ram(BitAnd(val, 7))), 0, Rom(BitAnd(Shr(val, 4), 1)))

\* a screen bank given as the index of the screen (0 or 1), not as the RAM bank
NewScreenBankAsIndex(val) == IF BitAnd(val, 8) = 0 THEN 0 ELSE 1

\* write_7ffd: the new screen bank
NewScreenBank(val) == IF BitAnd(val, 8) = 0 THEN 5 ELSE 7

\* write_7ffd: is the paging lock bit given
LockBit(val) == BitAnd(val, 32) # 0

\* a write_7ffd without the early return on disabled paging
Write7ffdNoLockTest(mp, sb, pe, val) ==
    [map |-> Write7ffdMap(mp, val),
     screen_bank |-> NewScreenBank(val),
     paging_enabled |-> IF LockBit(val) THEN FALSE ELSE pe]

\* ZXController::write_7ffd on the triple (map, screen_bank, paging_enabled)
Write7ffd(mp, sb, pe, val) ==
    IF ~pe
    THEN [map |-> mp, screen_bank |-> sb, paging_enabled |-> pe]
    ELSE [map |-> Write7ffdMap(mp, val),
          screen_bank |-> NewScreenBank(val),
          paging_enabled |-> IF LockBit(val) THEN FALSE ELSE pe]

\* a port decoding that tries the paging port before the ULA
WritePortKindPagingFirst(m, port) ==
    IF BitAnd(port, 49154) = 49152 THEN "ay_select"
    ELSE IF BitAnd(port, 49154) = 32768 THEN "ay_write"
    ELSE IF BitAnd(port, 32770) = 0 /\ m = "128K" THEN "7ffd"
    ELSE IF BitAnd(port, 1) = 0 THEN "ula"
    ELSE "none"

\* write_io: which device the port selects
WritePortKind(m, port) ==
    IF BitAnd(port, 49154) = 49152 THEN "ay_select"
    ELSE IF BitAnd(port, 49154) = 32768 THEN "ay_write"
    ELSE IF BitAnd(port, 1) = 0 THEN "ula"
    ELSE IF BitAnd(port, 32770) = 0 /\ m = "128K" THEN "7ffd"
    ELSE "none"

\* read_io: which device the port selects
ReadPortKind(port) ==
    IF BitAnd(port, 1) = 0 THEN "ula"
    ELSE IF BitAnd(port, 49154) = 49152 THEN "ay"
    ELSE IF kempston /\ BitAnd(port, 32) = 0 THEN "kempston"
    ELSE "floating"

\* a keyboard read that takes the rows whose select bit is set
RECURSIVE UlaRowsSelectOnSetBit(_, _, _)
UlaRowsSelectOnSetBit(h, n, tmp) ==
    IF n = 8 THEN tmp
    ELSE UlaRowsSelectOnSetBit(h, n + 1,
                 IF BitAnd(Shr(h, n), 1) = 1 THEN BitAnd(tmp, keyboard[n]) ELSE tmp)

\* read_io on a ULA port: the selected keyboard rows ANDed, bit 6 flipped by mic
RECURSIVE UlaRows(_, _, _)
UlaRows(h, n, tmp) ==
    IF n = 8 THEN tmp
    ELSE UlaRows(h, n + 1,
                 IF BitAnd(Shr(h, n), 1) = 0 THEN BitAnd(tmp, keyboard[n]) ELSE tmp)

UlaRead(port, micv) ==
    LET tmp == UlaRows(Shr(port, 8), 0, 255)
    IN  IF micv THEN BitXor(tmp, 64) ELSE tmp

(***************************************************************************)
(* execute_rot: the rotate and shift micro-operation of the Z80.           *)
(***************************************************************************)
\* the registers the model keeps and the flags of register F (Flag::*)
RotRegs == {"A"}
Flags == {"Carry", "Sub", "ParityOveflow", "F3", "HalfCarry", "F5", "Zero", "Sign"}

\* u8 shifts
Shl8(x) == (x * 2) % 256
Shr8(x) == x \div 2

\* an RLC that does not bring the old bit 7 round into bit 0
RlcNoWrapAround(data) ==
    [carry |-> BitAnd(data, 128) # 0, data |-> BitAnd(Shl8(data), 254)]

\* code 0, RLC
Rlc(data) ==
    LET carry == BitAnd(data, 128) # 0
        d == BitAnd(Shl8(data), 254)
    IN  [carry |-> carry, data |-> IF carry THEN BitOr(d, 1) ELSE d]

\* an RRC that brings the old bit 0 into bit 6
RrcWrapIntoBit6(data) ==
    LET carry == BitAnd(data, 1) # 0
        d == BitAnd(Shr8(data), 127)
    IN  [carry |-> carry, data |-> IF carry THEN BitOr(d, 64) ELSE d]

\* code 1, RRC
Rrc(data) ==
    LET carry == BitAnd(data, 1) # 0
        d == BitAnd(Shr8(data), 127)
    IN  [carry |-> carry, data |-> IF carry THEN BitOr(d, 128) ELSE d]

\* code 2, RL: cin is the Carry flag before the operation
Rl(data, cin) ==
    LET d == BitAnd(Shl8(data), 254)
    IN  [carry |-> BitAnd(data, 128) # 0, data |-> IF cin THEN BitOr(d, 1) ELSE d]

\* code 3, RR
Rr(data, cin) ==
    LET d == BitAnd(Shr8(data), 127)
    IN  [carry |-> BitAnd(data, 1) # 0, data |-> IF cin THEN BitOr(d, 128) ELSE d]

\* code 4, SLA
Sla(data) ==
    [carry |-> BitAnd(data, 128) # 0, data |-> BitAnd(Shl8(data), 254)]

\* an SRA that clears bit 7
SraBit7Cleared(data) ==
    [carry |-> BitAnd(data, 1) # 0, data |-> BitAnd(Shr8(data), 127)]

\* code 5, SRA
Sra(data) ==
    [carry |-> BitAnd(data, 1) # 0,
     data |-> BitOr(BitAnd(Shr8(data), 127), BitAnd(data, 128))]

\* code 6, SLL
Sll(data) ==
    [carry |-> BitAnd(data, 128) # 0, data |-> BitOr(Shl8(data), 1)]

\* code 7, SRL
Srl(data) ==
    [carry |-> BitAnd(data, 1) # 0, data |-> BitAnd(Shr8(data), 127)]

\* the match on rot_code: the carry-out and the new byte
RotCodes == 0..7
RotStep(code, data, cin) ==
    CASE code = 0 -> Rlc(data)
      [] code = 1 -> Rrc(data)
      [] code = 2 -> Rl(data, cin)
      [] code = 3 -> Rr(data, cin)
      [] code = 4 -> Sla(data)
      [] code = 5 -> Sra(data)
      [] code = 6 -> Sll(data)
      [] code = 7 -> Srl(data)

\* tables::PARITY_BIT, which lies outside the files modelled here, as the
\* specification describes it: P/V takes the parity of the result, and the
\* flag is set for 0x0B, a byte with an odd number of 1 bits
RECURSIVE OnesCount(_)
OnesCount(x) == IF x = 0 THEN 0 ELSE (x % 2) + OnesCount(x \div 2)
PARITY_BIT(x) == IF OnesCount(x) % 2 = 1 THEN 1 ELSE 0

\* flags after a rotation with HalfCarry reset, as Zilog documents it
RotFlagsHalfCarryReset(data, carry) ==
    [f \in Flags |->
        CASE f = "Zero"          -> data = 0
          [] f = "Sign"          -> BitAnd(data, 128) # 0
          [] f = "HalfCarry"     -> FALSE
          [] f = "ParityOveflow" -> PARITY_BIT(data) # 0
          [] f = "Sub"           -> FALSE
          [] f = "F3"            -> BitAnd(data, 8) # 0
          [] f = "F5"            -> BitAnd(data, 32) # 0
          [] f = "Carry"         -> carry]

\* the flags execute_rot sets from the new byte and the carry-out
RotFlags(data, carry) ==
    [f \in Flags |->
        CASE f = "Zero"          -> data = 0
          [] f = "Sign"          -> BitAnd(data, 128) # 0
          [] f = "HalfCarry"     -> TRUE
          [] f = "ParityOveflow" -> PARITY_BIT(data) # 0
          [] f = "Sub"           -> FALSE
          [] f = "F3"            -> BitAnd(data, 8) # 0
          [] f = "F5"            -> BitAnd(data, 32) # 0
          [] f = "Carry"         -> carry]

\* RotOperand8
RegOperand(r) == [kind |-> "Reg", reg |-> r]
IndirectOperand(a) == [kind |-> "Indirect", addr |-> a]

\* the byte the operand holds: cpu.regs.get_reg_8(reg) or bus.read(addr)
OperandValue(operand) ==
    IF operand.kind = "Reg" THEN regs[operand.reg] ELSE MemRead(operand.addr)


(***************************************************************************)
(* Operations of a ZXMemory used on its own.                               *)
(***************************************************************************)
\* return values: () and a byte (or the panic of an index outside the array)
Unit == <<"unit">>
RetByte(b) == IF b = Panic THEN <<"panic">> ELSE <<"byte", b>>

\* the CPU before any instruction of the model: registers and flags at 0
NoCpu ==
    /\ regs = [r \in RotRegs |-> 0]
    /\ flags = [f \in Flags |-> FALSE]
    /\ trail = <<>>

\* the controller's fields when the memory is driven on its own: nothing but
\* the two fields write_7ffd keeps, given as pe and sb
PagingOnly(pe, sb) ==
    /\ machine = "none"
    /\ kempston = FALSE
    /\ keyboard = [i \in 0..7 |-> 255]
    /\ border_color = 0
    /\ frame_clocks = 0
    /\ passed_frames = 0
    /\ events = {}
    /\ mic = FALSE
    /\ ear = FALSE
    /\ paging_enabled = pe
    /\ screen_bank = sb
    /\ tape_playing = FALSE
    /\ tape_bit = FALSE

NoController == PagingOnly(FALSE, 0)

\* paging enabled and screen bank 5, as ZXController::new leaves them for a
\* machine that pages
PagingController == PagingOnly(TRUE, 5)

InitMem ==
    /\ \E rt \in RomType, at \in RamType : MemNew(rt, at)
    /\ PagingController
    /\ NoCpu
    /\ call = "new"
    /\ args = <<>>
    /\ ret = Unit

MemReadOp(addr) ==
    /\ call' = "read"
    /\ UNCHANGED cpuvars
    /\ args' = <<addr>>
    /\ ret' = RetByte(MemRead(addr))
    /\ UNCHANGED <<memvars, ctlvars>>

MemWriteOp(addr, value) ==
    /\ call' = "write"
    /\ UNCHANGED cpuvars
    /\ args' = <<addr, value>>
    /\ ret' = IF MemWritePanics(map, addr) THEN <<"panic">> ELSE Unit
    /\ ram' = IF MemWritePanics(map, addr) THEN ram ELSE MemWriteRam(map, ram, addr, value)
    /\ UNCHANGED <<rom, rom_size, ram_size, map, ctlvars>>

MemRemapOp(block, page) ==
    /\ call' = "remap"
    /\ UNCHANGED cpuvars
    /\ args' = <<block, page>>
    /\ ret' = IF RemapOk(block, page) THEN <<"Ok">> ELSE <<"Err">>
    /\ map' = RemapMap(map, block, page)
    /\ UNCHANGED <<rom, ram, rom_size, ram_size, ctlvars>>

MemLoadRomOp(page, data) ==
    /\ call' = "load_rom"
    /\ UNCHANGED cpuvars
    /\ args' = <<page, data>>
    /\ ret' = IF LoadRomPanics(page, data) THEN <<"panic">>
              ELSE IF LoadRomOk(page) THEN <<"Ok">> ELSE <<"Err">>
    /\ rom' = LoadRomRom(rom, page, data)
    /\ UNCHANGED <<ram, rom_size, ram_size, map, ctlvars>>

\* ZXController::write_7ffd on a memory driven on its own: nothing when
\* paging is disabled, else the two remaps (results dropped), the screen
\* bank and the paging lock
MemPagingOp(val) ==
    /\ call' = "paging"
    /\ UNCHANGED cpuvars
    /\ args' = <<val>>
    /\ ret' = Unit
    /\ \E pg \in {Write7ffd(map, screen_bank, paging_enabled, val)} :
           /\ map' = pg.map
           /\ screen_bank' = pg.screen_bank
           /\ paging_enabled' = pg.paging_enabled
    /\ UNCHANGED <<rom, ram, rom_size, ram_size, machine, kempston, keyboard,
                   border_color, frame_clocks, passed_frames, events, mic, ear,
                   tape_playing, tape_bit>>

(***************************************************************************)
(* Operations of the ZXController.                                         *)
(***************************************************************************)
\* ZXController::new for one machine
CtlNew(m, k) ==
    /\ machine = m
    /\ IF m = "48K" THEN MemNew("K16", "K48") ELSE MemNew("K32", "K128")
    /\ paging_enabled = (m = "128K")
    /\ screen_bank = IF m = "48K" THEN 0 ELSE 5
    /\ kempston = k
    /\ keyboard = [i \in 0..7 |-> 255]
    /\ border_color = 0
    /\ frame_clocks = 0
    /\ passed_frames = 0
    /\ events = {}
    /\ mic = FALSE
    /\ ear = FALSE
    /\ tape_playing = FALSE
    /\ tape_bit = FALSE
    /\ NoCpu
    /\ call = "new"
    /\ args = <<>>
    /\ ret = Unit

Clk == [fc |-> frame_clocks, pf |-> passed_frames]

\* a wait that leaves mic as it finds it
WaitMicKept(micv, b) == micv

\* wait_internal: mic after a wait is the bit b the tape shows, whatever mic
\* held before the wait
WaitMic(micv, b) == b

\* the clock fields, the tape and mic after the waits of one operation:
\* c is the clock pair reached, b the bit the tape shows then, micv what
\* mic held before the last wait
SetClockMic(c, micv, b) ==
    \E v \in {c} :
        /\ frame_clocks' = v.fc
        /\ passed_frames' = v.pf
        /\ tape_bit' = b
        /\ mic' = WaitMic(micv, b)

\* the same for an operation that writes mic only in its waits
SetClock(c, b) == SetClockMic(c, mic, b)

\* the model stops advancing the clock once MaxFrames frames were counted, or
\* once frame_clocks has fallen MaxLag frames behind
ClockOpen ==
    /\ machine \in Machines
    /\ passed_frames < MaxFrames
    /\ frame_clocks < MaxLag * Specs(machine).clocks_frame

SendKey(key, pressed) ==
    /\ machine \in Machines
    /\ call' = "send_key"
    /\ UNCHANGED cpuvars
    /\ args' = <<key, pressed>>
    /\ ret' = Unit
    /\ keyboard' = [keyboard EXCEPT
                      ![key.row_id] = SendKeyRow(keyboard[key.row_id], key.mask, pressed)]
    /\ UNCHANGED <<memvars, machine, kempston, border_color, frame_clocks,
                   passed_frames, events, mic, ear, paging_enabled, screen_bank,
                   tape_playing, tape_bit>>

ClearEvents ==
    /\ machine \in Machines
    /\ call' = "clear_events"
    /\ UNCHANGED cpuvars
    /\ args' = <<>>
    /\ ret' = Unit
    /\ events' = {}
    /\ UNCHANGED <<memvars, machine, kempston, keyboard, border_color, frame_clocks,
                   passed_frames, mic, ear, paging_enabled, screen_bank,
                   tape_playing, tape_bit>>

\* ZXController::set_border_color: the colour as its 3-bit code (the border
\* renderer that takes the clocks is not modelled)
SetBorderColor(clocks, color) ==
    /\ machine \in Machines
    /\ call' = "set_border_color"
    /\ UNCHANGED cpuvars
    /\ args' = <<clocks, color>>
    /\ ret' = Unit
    /\ border_color' = color
    /\ UNCHANGED <<memvars, machine, kempston, keyboard, frame_clocks, passed_frames,
                   events, mic, ear, paging_enabled, screen_bank, tape_playing,
                   tape_bit>>

ResetFrameCounter ==
    /\ machine \in Machines
    /\ call' = "reset_frame_counter"
    /\ UNCHANGED cpuvars
    /\ args' = <<>>
    /\ ret' = Unit
    /\ passed_frames' = 0
    /\ UNCHANGED <<memvars, machine, kempston, keyboard, border_color, frame_clocks,
                   events, mic, ear, paging_enabled, screen_bank,
                   tape_playing, tape_bit>>

\* the frontend starts or stops the tape
TapePlay(on) ==
    /\ machine \in Machines
    /\ call' = "tape"
    /\ UNCHANGED cpuvars
    /\ args' = <<on>>
    /\ ret' = Unit
    /\ tape_playing' = on
    /\ UNCHANGED <<memvars, machine, kempston, keyboard, border_color, frame_clocks,
                   passed_frames, events, mic, ear, paging_enabled, screen_bank,
                   tape_bit>>

\* a tape trap that looks for ROM page 0 on either machine
CheckFastLoadRomZero == GetPage(map, 0) = Rom(0)

\* does pc_callback look for the tape trap: slot 0 holds the Spectrum ROM
CheckFastLoad ==
    \/ machine = "48K" /\ GetPage(map, 0) = Rom(0)
    \/ machine = "128K" /\ GetPage(map, 0) = Rom(1)

PcCallback(addr) ==
    /\ machine \in Machines
    /\ call' = "pc_callback"
    /\ UNCHANGED cpuvars
    /\ args' = <<addr>>
    /\ ret' = Unit
    /\ events' = IF CheckFastLoad /\ addr = ADDR_LD_BREAK
                 THEN events \cup {"TAPE_FAST_LOAD_TRIGGER_DETECTED"}
                 ELSE events
    /\ UNCHANGED <<memvars, machine, kempston, keyboard, border_color, frame_clocks,
                   passed_frames, mic, ear, paging_enabled, screen_bank,
                   tape_playing, tape_bit>>

ReadInternal(addr) ==
    /\ machine \in Machines
    /\ call' = "read_internal"
    /\ UNCHANGED cpuvars
    /\ args' = <<addr>>
    /\ ret' = RetByte(MemRead(addr))
    /\ UNCHANGED <<memvars, ctlvars>>

WriteInternal(addr, data) ==
    /\ machine \in Machines
    /\ call' = "write_internal"
    /\ UNCHANGED cpuvars
    /\ args' = <<addr, data>>
    /\ ret' = Unit
    /\ ram' = MemWriteRam(map, ram, addr, data)
    /\ UNCHANGED <<rom, rom_size, ram_size, map, ctlvars>>

WaitInternal(clk) ==
    /\ ClockOpen
    /\ call' = "wait_internal"
    /\ UNCHANGED cpuvars
    /\ args' = <<clk>>
    /\ ret' = Unit
    /\ \E b \in TapeBits(clk) :
          SetClock(WaitInternalClk(machine, Clk, clk), b)
    /\ UNCHANGED <<memvars, machine, kempston, keyboard, border_color, events, ear,
                   paging_enabled, screen_bank, tape_playing>>

WaitMreq(addr, clk) ==
    /\ ClockOpen
    /\ call' = "wait_mreq"
    /\ UNCHANGED cpuvars
    /\ args' = <<addr, clk>>
    /\ ret' = Unit
    /\ LET stall == IF AddrIsContended(machine, map, addr)
                    THEN ContentionClocks(machine, frame_clocks) ELSE 0
       IN  \E b \in TapeBits(stall + clk) :
              SetClock(WaitMreqClk(machine, map, Clk, addr, clk), b)
    /\ UNCHANGED <<memvars, machine, kempston, keyboard, border_color, events, ear,
                   paging_enabled, screen_bank, tape_playing>>

\* wait_no_mreq only forwards to wait_mreq
WaitNoMreq(addr, clk) ==
    /\ ClockOpen
    /\ call' = "wait_no_mreq"
    /\ UNCHANGED cpuvars
    /\ args' = <<addr, clk>>
    /\ ret' = Unit
    /\ LET stall == IF AddrIsContended(machine, map, addr)
                    THEN ContentionClocks(machine, frame_clocks) ELSE 0
       IN  \E b \in TapeBits(stall + clk) :
              SetClock(WaitMreqClk(machine, map, Clk, addr, clk), b)
    /\ UNCHANGED <<memvars, machine, kempston, keyboard, border_color, events, ear,
                   paging_enabled, screen_bank, tape_playing>>

\* read_io: the byte the selected device gives at clock pair c with mic = micv
ReadIoOutput(port, c, micv) ==
    LET kind == ReadPortKind(port)
    IN  CASE kind = "ula"      -> UlaRead(port, micv)
          [] kind = "ay"       -> FloatingBusValue(machine, map, c.fc)
          [] kind = "kempston" -> KempstonRead
          [] kind = "floating" -> FloatingBusValue(machine, map, c.fc)

ReadIo(port) ==
    /\ ClockOpen
    /\ call' = "read_io"
    /\ UNCHANGED cpuvars
    /\ args' = <<port>>
    /\ \E c0 \in {IoContentionFirst(machine, map, Clk, port)} :
       \E c1 \in {IoContentionLast(machine, map, c0, port)} :
       \E b1 \in TapeBits(1) :
           /\ ret' = RetByte(ReadIoOutput(port, c1, b1))
           /\ \E b2 \in TapeBits(1) : SetClock(WaitInternalClk(machine, c1, 1), b2)
    /\ UNCHANGED <<memvars, machine, kempston, keyboard, border_color, events, ear,
                   paging_enabled, screen_bank, tape_playing>>

\* the ULA branch also sets mic from data bit 3; the waits that follow in the
\* same call (io_contention_last, the trailing T-state) each store the tape's
\* bit into mic again, so the value left in mic is the tape's
WriteIo(port, data) ==
    /\ ClockOpen
    /\ call' = "write_io"
    /\ UNCHANGED cpuvars
    /\ args' = <<port, data>>
    /\ ret' = Unit
    /\ \E kind \in {WritePortKind(machine, port)} :
       \E pg \in {IF kind = "7ffd"
                  THEN Write7ffd(map, screen_bank, paging_enabled, data)
                  ELSE [map |-> map, screen_bank |-> screen_bank,
                        paging_enabled |-> paging_enabled]} :
       \E c0 \in {IoContentionFirst(machine, map, Clk, port)} :
       \E c1 \in {IoContentionLast(machine, pg.map, c0, port)} :
           /\ map' = pg.map
           /\ screen_bank' = pg.screen_bank
           /\ paging_enabled' = pg.paging_enabled
           /\ border_color' = IF kind = "ula" THEN BitAnd(data, 7) ELSE border_color
           /\ ear' = IF kind = "ula" THEN BitAnd(data, 16) # 0 ELSE ear
           /\ \E b \in TapeBits(1) :
                 SetClockMic(WaitInternalClk(machine, c1, 1),
                             IF kind = "ula" THEN BitAnd(data, 8) # 0 ELSE mic, b)
    /\ UNCHANGED <<rom, ram, rom_size, ram_size, machine, kempston, keyboard, events,
                   tape_playing>>

(***************************************************************************)
(* The rotate micro-operation on the CPU and the memory behind the bus.    *)
(***************************************************************************)
\* log: is this call the next of a run of the same rotation on one operand
SameRun(code, operand) == call = "execute_rot" /\ args = <<code, operand>>

\* log: the run of a pure rotation (RLC, RRC) with this call added: for each
\* call the byte it found and the carry it gave, the last MaxRun calls kept
TrailAfter(code, operand, data, carry) ==
    LET e == [before |-> data, carry |-> carry]
        run == IF SameRun(code, operand) THEN trail ELSE <<>>
    IN  IF code \notin {0, 1} THEN <<>>
        ELSE IF Len(run) < MaxRun THEN Append(run, e)
        ELSE Append(Tail(run), e)

\* execute_rot(cpu, bus, rot_code, operand)
ExecuteRot(code, operand) ==
    /\ call' = "execute_rot"
    /\ args' = <<code, operand>>
    /\ \E data \in {OperandValue(operand)} :
       \E r \in {RotStep(code, data, flags["Carry"])} :
           /\ data # Panic
           /\ ret' = RetByte(r.data)
           /\ regs' = IF operand.kind = "Reg"
                      THEN [regs EXCEPT ![operand.reg] = r.data]
                      ELSE regs
           /\ ram' = IF operand.kind = "Indirect"
                     THEN MemWriteRam(map, ram, operand.addr, r.data)
                     ELSE ram
           /\ flags' = RotFlags(r.data, r.carry)
           /\ trail' = TrailAfter(code, operand, data, r.carry)
    /\ UNCHANGED <<rom, rom_size, ram_size, map, ctlvars>>

(***************************************************************************)
(* SpecMem: a ZXMemory on its own, any ROM/RAM type, its map driven by     *)
(* remap and by the remap pairs of paging writes, read at every slot.      *)
(***************************************************************************)
MemAddrs == {0, 16384, 32768, 65535}
\* for each pool size a page inside it and the first page past it
RemapPages == {Ram(n) : n \in {1, 3, 8}} \cup {Rom(n) : n \in {1, 2, 4}}
\* 0x01, 0x13
PagingVals == {1, 19}

MemReadAct == \E a \in MemAddrs : MemReadOp(a)
MemRemapAct == \E b \in 0..MaxBlock, p \in RemapPages : MemRemapOp(b, p)
MemPagingAct == \E v \in PagingVals : MemPagingOp(v)

NextMem ==
    \/ MemReadAct
    \/ MemRemapAct
    \/ MemPagingAct

SpecMem == InitMem /\ [][NextMem]_vars

(***************************************************************************)
(* SpecMemRW: a ZXMemory on its own, its contents driven by write and      *)
(* load_rom while slots 0 and 3 are remapped among a few pages.            *)
(***************************************************************************)
RwAddrs == {0, 1, 49152, 65535}
RwBytes == {0, 165}
RwBlocks == {0, 3}
RwPages == {Rom(0), Rom(1), Ram(0)}
RomLoadPages == {0, 1, 4}
RomData == {<<>>, <<243>>}

RwReadAct == \E a \in RwAddrs : MemReadOp(a)
RwWriteAct == \E a \in RwAddrs, v \in RwBytes : MemWriteOp(a, v)
RwRemapAct == \E b \in RwBlocks, p \in RwPages : MemRemapOp(b, p)
RwLoadRomAct == \E p \in RomLoadPages, d \in RomData : MemLoadRomOp(p, d)

NextMemRW ==
    \/ RwReadAct
    \/ RwWriteAct
    \/ RwRemapAct
    \/ RwLoadRomAct

SpecMemRW == InitMem /\ [][NextMemRW]_vars


(***************************************************************************)
(* SpecBanks: a ZXMemory with a 32K ROM and any RAM, one offset written    *)
(* and read through slots 1 and 3 while both are remapped and paged among  *)
(* two RAM banks and a ROM page, which load_rom fills (a load of more than *)
(* a page of bytes panics).                                                *)
(***************************************************************************)
InitBanks ==
    /\ \E at \in RamType : MemNew("K32", at)
    /\ PagingController
    /\ NoCpu
    /\ call = "new"
    /\ args = <<>>
    /\ ret = Unit

\* offset 1 of slots 1 and 3
BankAddrs == {16385, 49153}
BankBytes == {0, 165}
BankBlocks == {1, 3}
BankPages == {Ram(0), Ram(1), Rom(0)}
\* bank 0 or bank 1 into slot 3; 0x29: bank 1, screen bank 7 and the lock
BankPaging == {0, 1, 41}

\* two bytes, and one byte more than a page holds
BankRomData == {<<0, 243>>, [i \in 1..(PAGE_SIZE + 1) |-> 1]}

BankReadAct == \E a \in BankAddrs : MemReadOp(a)
BankWriteAct == \E a \in BankAddrs, v \in BankBytes : MemWriteOp(a, v)
BankRemapAct == \E b \in BankBlocks, p \in BankPages : MemRemapOp(b, p)
BankPagingAct == \E v \in BankPaging : MemPagingOp(v)
BankLoadRomAct == \E d \in BankRomData : MemLoadRomOp(0, d)

NextBanks ==
    \/ BankReadAct
    \/ BankWriteAct
    \/ BankRemapAct
    \/ BankPagingAct
    \/ BankLoadRomAct

SpecBanks == InitBanks /\ [][NextBanks]_vars

(***************************************************************************)
(* Spec: the controller of either machine, driven through its ports (with  *)
(* the paging port given many values), short waits, the tape-trap callback *)
(* and internal writes.                                                    *)
(***************************************************************************)
Init == \E m \in Machines : CtlNew(m, FALSE)

\* the ports that reach write_7ffd on a 128K machine: 0x7FFD, 0x0001
PagingPorts == {32765, 1}
\* 0x00, 0x01, 0x02, 0x1F, 0x28, 0x3F
PagingData == {0, 1, 2, 31, 40, 63}
\* the other ports: 0x00FE (ULA), 0x40FF (no device), 0xFFFD and 0xBFFD (AY)
OtherPorts == {254, 16639, 65533, 49149}
\* 0x17
OtherData == {23}
IoWrites == (PagingPorts \X PagingData) \cup (OtherPorts \X OtherData)
ReadPorts == {254, 16639}
PcAddrs == {0, ADDR_LD_BREAK}
WrAddrs == {0, 32768}
WrBytes == {165}

WriteIoAct == \E w \in IoWrites : WriteIo(w[1], w[2])
ReadIoAct == \E port \in ReadPorts : ReadIo(port)
WaitInternalAct == WaitInternal(1)
PcCallbackAct == \E a \in PcAddrs : PcCallback(a)
WriteInternalAct == \E a \in WrAddrs, v \in WrBytes : WriteInternal(a, v)

Next ==
    \/ WriteIoAct
    \/ ReadIoAct
    \/ WaitInternalAct
    \/ PcCallbackAct
    \/ ClearEvents
    \/ WriteInternalAct

Spec == Init /\ [][Next]_vars

(***************************************************************************)
(* SpecClock: the controller of either machine, its clock driven by waits  *)
(* of many lengths (up to two frames in one call), contended and           *)
(* uncontended memory waits and port accesses.                             *)
(***************************************************************************)
ClkWaits(m) ==
    (0..MaxWait) \cup {Specs(m).clocks_frame - 1, 2 * Specs(m).clocks_frame}
ClkAddrs == {0, 16384}
ClkPorts == {254, 16639, 32765}
ClkData == {0}

ClkWaitInternalAct == \E k \in ClkWaits(machine) : WaitInternal(k)
ClkWaitMreqAct == \E a \in ClkAddrs, k \in 0..MaxWait : WaitMreq(a, k)
ClkWaitNoMreqAct == \E a \in ClkAddrs, k \in 0..MaxWait : WaitNoMreq(a, k)
ClkReadIoAct == \E port \in ClkPorts : ReadIo(port)
ClkWriteIoAct == \E port \in ClkPorts, data \in ClkData : WriteIo(port, data)

NextClock ==
    \/ ClkWaitInternalAct
    \/ ClkWaitMreqAct
    \/ ClkWaitNoMreqAct
    \/ ClkReadIoAct
    \/ ClkWriteIoAct
    \/ ResetFrameCounter

SpecClock == Init /\ [][NextClock]_vars

(***************************************************************************)
(* SpecKeys: the keyboard of the controller, driven by send_key.           *)
(***************************************************************************)
KeyRows == {0, 3, 7}
KeyMasks == {1, 10, 31}
Keys == [row_id : KeyRows, mask : KeyMasks]

SendKeyAct == \E key \in Keys, pressed \in BOOLEAN : SendKey(key, pressed)

NextKeys == SendKeyAct

SpecKeys == Init /\ [][NextKeys]_vars

(***************************************************************************)
(* SpecUla: the controller's ULA port, the keyboard and the tape: keys go  *)
(* down and up, the tape starts and stops, ports are read and written.     *)
(***************************************************************************)
\* CAPS SHIFT (row 0, 0x01) and a key of row 7
UlaKeys == {[row_id |-> 0, mask |-> 1], [row_id |-> 7, mask |-> 16]}
\* 0xFEFE (row 0), 0x7EFE (rows 0 and 7), 0xFFFE (no row), and 0xFEFC, an
\* even port that also has the AY register pattern
UlaReadPorts == {65278, 32510, 65534, 65276}
\* 0xFE and 0xFC are ULA ports (0xFC also has bits 1 and 15 clear, as the
\* paging port has); 0x8000 is even but selects the AY data port
UlaWrites == {<<254, 7>>, <<252, 24>>, <<254, 8>>, <<32768, 7>>}
UlaWaitAddrs == {16384}

UlaSendKeyAct == \E key \in UlaKeys, pressed \in BOOLEAN : SendKey(key, pressed)
UlaTapeAct == \E on \in BOOLEAN : TapePlay(on)
UlaReadIoAct == \E port \in UlaReadPorts : ReadIo(port)
UlaWriteIoAct == \E w \in UlaWrites : WriteIo(w[1], w[2])
UlaWaitInternalAct == \E clk \in 0..1 : WaitInternal(clk)
UlaWaitMreqAct == \E a \in UlaWaitAddrs : WaitMreq(a, 1)
UlaWaitNoMreqAct == \E a \in UlaWaitAddrs : WaitNoMreq(a, 1)

NextUla ==
    \/ UlaSendKeyAct
    \/ UlaTapeAct
    \/ UlaReadIoAct
    \/ UlaWriteIoAct
    \/ UlaWaitInternalAct
    \/ UlaWaitMreqAct
    \/ UlaWaitNoMreqAct

SpecUla == Init /\ [][NextUla]_vars

(***************************************************************************)
(* SpecBus: the controller with or without a Kempston joystick, a few      *)
(* bytes stored in the screen area, ports read at every frame clock.       *)
(***************************************************************************)
InitBus == \E m \in Machines, k \in BOOLEAN : CtlNew(m, k)

\* bitmap bytes of row 0 (0x4001) and row 1 (0x4102), an attribute (0x5803)
BusWrites == {<<16385, 17>>, <<16642, 34>>, <<22531, 51>>}
\* 0x40FF and 0x00FF decode to no device, 0x001F is the Kempston port,
\* 0xFFFD the AY register port
BusPorts == {16639, 255, 31, 65533}

BusWriteInternalAct == \E w \in BusWrites : WriteInternal(w[1], w[2])
BusReadIoAct == \E port \in BusPorts : ReadIo(port)
BusWaitInternalAct == WaitInternal(1)

NextBus ==
    \/ BusWriteInternalAct
    \/ BusReadIoAct
    \/ BusWaitInternalAct

SpecBus == InitBus /\ [][NextBus]_vars

(***************************************************************************)
(* SpecRot: the rotations applied to a register, from any byte.            *)
(* SpecRotMem: the rotations applied to a byte of RAM through the bus.     *)
(***************************************************************************)
RotBytes == 0..255
\* flag states before the first rotation: none set, all set, only Carry,
\* all but Carry
RotFlagStates ==
    {[f \in Flags |-> FALSE], [f \in Flags |-> TRUE],
     [f \in Flags |-> f = "Carry"], [f \in Flags |-> f # "Carry"]}
\* 0x8000, in the RAM of a 48K memory
RotAddr == 32768

InitRot ==
    /\ MemNew("K16", "K48")
    /\ NoController
    /\ \E b \in RotBytes : regs = [r \in RotRegs |-> b]
    /\ flags \in RotFlagStates
    /\ trail = <<>>
    /\ call = "new"
    /\ args = <<>>
    /\ ret = Unit

InitRotMem ==
    /\ rom = ZeroVec
    /\ \E b \in RotBytes : ram = VecSet(ZeroVec, PoolIndex(NewMap("K48"), RotAddr), b)
    /\ rom_size = NewRomSize("K16")
    /\ ram_size = NewRamSize("K48")
    /\ map = NewMap("K48")
    /\ NoController
    /\ regs = [r \in RotRegs |-> 0]
    /\ flags \in RotFlagStates
    /\ trail = <<>>
    /\ call = "new"
    /\ args = <<>>
    /\ ret = Unit

RotRegAct == \E code \in RotCodes, r \in RotRegs : ExecuteRot(code, RegOperand(r))
RotIndirectAct == \E code \in RotCodes : ExecuteRot(code, IndirectOperand(RotAddr))

NextRot == RotRegAct
NextRotMem == RotIndirectAct

SpecRot == InitRot /\ [][NextRot]_vars
SpecRotMem == InitRotMem /\ [][NextRotMem]_vars

(***************************************************************************)
(* SpecIo: ports of every contention kind read and written at every frame  *)
(* clock, with a contended or an uncontended bank paged into slot 3.       *)
(***************************************************************************)
\* 0x00FE: port-contended only; 0x00FF: not contended; 0x40FE: port- and
\* address-contended; 0x40FF: address-contended only; 0xC0FF: in slot 3
IoTimePorts == {254, 255, 16638, 16639, 49407}
\* bank 0 or bank 1 into slot 3 (on a 128K machine bank 1 is contended)
IoTimePaging == {0, 1}

IoReadAct == \E port \in IoTimePorts : ReadIo(port)
IoWriteAct == \E port \in IoTimePorts : WriteIo(port, 0)
IoPagingAct == \E v \in IoTimePaging : WriteIo(32765, v)
IoWaitAct == \E clk \in {1, 2 * Specs(machine).clocks_frame} : WaitInternal(clk)
\* the frontend sets the border at the clock the controller is at
IoBorderColors == {2, 5}
IoBorderAct == \E color \in IoBorderColors : SetBorderColor(frame_clocks, color)

NextIo ==
    \/ IoReadAct
    \/ IoWriteAct
    \/ IoPagingAct
    \/ IoWaitAct
    \/ IoBorderAct

SpecIo == Init /\ [][NextIo]_vars

(***************************************************************************)
(* Claims about the memory.                                                *)
(***************************************************************************)
\* the number of whole pages in the pool of a page
PoolPages(page) == PoolSize(page) \div PAGE_SIZE

\* C5: a write to an address whose slot maps a ROM page changes nothing: the
\* byte read back at that address is the one read before, and the ROM pool,
\* the RAM pool and the map are as they were.
C5_RomWriteIgnored ==
    [][\A a \in RwAddrs, v \in RwBytes :
          (MemWriteOp(a, v) /\ map[SlotOf(a)].kind = "Rom") =>
              /\ MemReadIn(map', rom', ram', a) = MemRead(a)
              /\ rom' = rom
              /\ ram' = ram
              /\ map' = map]_vars

\* a write was the last call while slots 0 and 3 (the only slots written)
\* both map ROM pages that hold loaded bytes
C5_Witness ==
    /\ call = "write"
    /\ map[0] = Rom(0)
    /\ map[3] = Rom(1)
    /\ VecGet(rom, 0) = 243
    /\ VecGet(rom, PAGE_SIZE) = 243

\* C6: remap(slot, page) returns Ok exactly when slot < 4 and the page index
\* lies inside its pool; then the slot maps the page and the other slots keep
\* theirs; otherwise it returns Err and the map keeps all four entries.
C6_RemapContract ==
    [][\A b \in 0..MaxBlock, p \in RemapPages :
          MemRemapOp(b, p) =>
              LET ok == b < 4 /\ p.n < PoolPages(p)
              IN  /\ ret' = (IF ok THEN <<"Ok">> ELSE <<"Err">>)
                  /\ ok => /\ GetPage(map', b * 16384) = p
                           /\ \A i \in (0..3) \ {b} : map'[i] = map[i]
                  /\ ~ok => map' = map]_vars

\* a remap has just put a ROM page into slot 2 of the largest memory
C6_Witness ==
    /\ call = "remap"
    /\ ret = <<"Ok">>
    /\ rom_size = SIZE_64K
    /\ map[2] = Rom(2)

\* C7: every map entry names a page that lies wholly inside its pool, so no
\* read or write of a 16-bit address indexes outside the ROM or RAM array.
C7_MapInBounds ==
    /\ \A i \in 0..3 : (map[i].n + 1) * PAGE_SIZE <= PoolSize(map[i])
    /\ \A a \in {0, 16383, 16384, 32767, 32768, 49151, 49152, 65535} : MemRead(a) # Panic /\ ~MemWritePanics(map, a)
    /\ ret # <<"panic">>

\* a 32K-ROM/48K-RAM memory right after the remap pair of paging value 0x13:
\* remap(3, Ram(3)) failed and left the Ram(1) an earlier remap put in slot 3,
\* remap(0, Rom(1)) succeeded
C7_Witness ==
    /\ call = "paging"
    /\ args = <<19>>
    /\ rom_size = SIZE_32K
    /\ ram_size = SIZE_48K
    /\ map[3] = Ram(1)
    /\ map[0] = Rom(1)


(***************************************************************************)
(* Claims about paging.                                                    *)
(***************************************************************************)
\* is the port an odd port with port & 0x8002 = 0 (bit 0 set, bits 1 and 15 clear)
IsPagingPort(port) ==
    port % 2 = 1 /\ (port \div 2) % 2 = 0 /\ (port \div 32768) % 2 = 0

\* C1: on a 128K machine a paging write with bit 5 set, applied while paging
\* is enabled, disables paging; and once paging is disabled it stays disabled
\* and no step (a later write to the paging port included) changes map[0],
\* map[3] or screen_bank.
C1_PagingLockPermanent ==
    [][machine = "128K" =>
          /\ \A w \in IoWrites :
                (/\ WriteIo(w[1], w[2])
                 /\ IsPagingPort(w[1])
                 /\ paging_enabled
                 /\ (w[2] \div 32) % 2 = 1) => ~paging_enabled'
          /\ ~paging_enabled =>
                /\ ~paging_enabled'
                /\ map'[0] = map[0]
                /\ map'[3] = map[3]
                /\ screen_bank' = screen_bank]_vars

\* paging was locked by 0x28 (bank 0, screen 7) and 0x02 was then written to
\* 0x7FFD: bank 0 is still in slot 3
C1_Witness ==
    /\ machine = "128K"
    /\ ~paging_enabled
    /\ call = "write_io"
    /\ args = <<32765, 2>>
    /\ map[3] = Ram(0)
    /\ map[0] = Rom(0)
    /\ screen_bank = 7

\* C2: on a 128K machine with paging enabled, a write of data to a paging port
\* leaves map[3] = Ram(data & 7), screen_bank = 7 if data bit 3 is set and 5
\* otherwise, map[0] = Rom((data >> 4) & 1), and slots 1 and 2 as they were.
C2_PagingWrite ==
    [][\A w \in IoWrites :
          (/\ WriteIo(w[1], w[2])
           /\ machine = "128K"
           /\ paging_enabled
           /\ IsPagingPort(w[1])) =>
              /\ map'[3] = Ram(w[2] % 8)
              /\ screen_bank' = (IF (w[2] \div 8) % 2 = 1 THEN 7 ELSE 5)
              /\ map'[0] = Rom((w[2] \div 16) % 2)
              /\ map'[1] = map[1]
              /\ map'[2] = map[2]]_vars

\* 0x1F was just written to 0x7FFD with paging enabled: bank 7, screen 7, ROM 1
C2_Witness ==
    /\ machine = "128K"
    /\ paging_enabled
    /\ call = "write_io"
    /\ args = <<32765, 31>>
    /\ map[3] = Ram(7)
    /\ screen_bank = 7
    /\ map[0] = Rom(1)

\* C8: on a 48K machine paging is disabled, screen_bank is 0 and the map is
\* the one built at construction; on a 128K machine screen_bank is 5 or 7 and
\* map[3] is a RAM bank 0..7.
C8_MachineInvariants ==
    /\ machine = "48K" =>
          /\ ~paging_enabled
          /\ screen_bank = 0
          /\ map = NewMap("K48")
    /\ machine = "128K" =>
          /\ screen_bank \in {5, 7}
          /\ map[3].kind = "Ram"
          /\ map[3].n \in 0..7

\* a 48K machine right after a write of 0x3F to port 0x7FFD
C8_Witness ==
    /\ machine = "48K"
    /\ call = "write_io"
    /\ args = <<32765, 63>>

\* C9: slot 0 of the controller's memory always maps a ROM page.
C9_Slot0IsRom == machine \in Machines => map[0].kind = "Rom"

\* a 128K machine right after a paging write that selected ROM 1
C9_Witness ==
    /\ machine = "128K"
    /\ call = "write_io"
    /\ args = <<1, 31>>
    /\ map[0] = Rom(1)

(***************************************************************************)
(* Claims about the frame clock.                                           *)
(***************************************************************************)
\* the longest wait a single wait_internal call is given in SpecClock
MaxStall(m) == 2 * Specs(m).clocks_frame

\* C3: a call wait_internal(k) made with frame_clocks < clocks_frame raises
\* passed_frames by floor((frame_clocks + k) / clocks_frame), the number of
\* frame boundaries the call crosses.
C3_FramesCounted ==
    [][\A k \in ClkWaits(machine) :
          (WaitInternal(k) /\ frame_clocks < Specs(machine).clocks_frame) =>
              passed_frames' =
                  passed_frames + (frame_clocks + k) \div Specs(machine).clocks_frame]_vars

\* C4: between calls 0 <= frame_clocks < clocks_frame + D, D being the
\* largest number of T-states a single wait adds.
C4_FrameClocksBounded ==
    machine \in Machines =>
        /\ 0 <= frame_clocks
        /\ frame_clocks < Specs(machine).clocks_frame + MaxStall(machine)

(***************************************************************************)
(* Claims about the keyboard.                                              *)
(***************************************************************************)
\* C10: after any number of send_key calls every keyboard row has bits 5..7
\* set, and a send_key call changes no row but the row of its key.
C10_KeyboardRows ==
    /\ [](\A i \in 0..7 : keyboard[i] \div 32 = 7)
    /\ [][\A key \in Keys, pressed \in BOOLEAN :
            SendKey(key, pressed) =>
                \A i \in (0..7) \ {key.row_id} : keyboard'[i] = keyboard[i]]_vars

\* all five keys of row 0 are down, two keys of row 7, one of row 3
C10_Witness ==
    /\ call = "send_key"
    /\ keyboard[0] = 224
    /\ keyboard[7] = 245
    /\ keyboard[3] = 254

\* the keyboard after the release send_key(key, false), given the keyboard kb
KeyboardAfterRelease(kb, key) ==
    [kb EXCEPT ![key.row_id] = SendKeyRow(kb[key.row_id], key.mask, FALSE)]

\* is the key up: every bit of its mask is set in its row
KeyIsUp(kb, key) == BitAnd(kb[key.row_id], key.mask) = key.mask

\* C11 as stated: from every reachable keyboard state, send_key(k, true)
\* followed by send_key(k, false) leaves all 8 rows as they were before the
\* pair.
C11_PressReleaseRestoresAny ==
    [][\A key \in Keys :
          SendKey(key, TRUE) => KeyboardAfterRelease(keyboard', key) = keyboard]_vars

\* C11 amended: from every reachable keyboard state in which key k is up
\* (every bit of its mask set in its row), send_key(k, true) followed by
\* send_key(k, false) leaves all 8 rows as they were before the pair.
C11_PressReleaseRestores ==
    [][\A key \in Keys :
          (SendKey(key, TRUE) /\ KeyIsUp(keyboard, key)) =>
              KeyboardAfterRelease(keyboard', key) = keyboard]_vars

\* the key of row 0 with mask 0x01 was just pressed while two other keys of
\* that row (mask 0x0A) are held down
C11_Witness ==
    /\ call = "send_key"
    /\ args = <<[row_id |-> 0, mask |-> 1], TRUE>>
    /\ keyboard[0] = 244

(***************************************************************************)
(* Claims about the tape-load trap.                                        *)
(***************************************************************************)
FastLoadEvent == "TAPE_FAST_LOAD_TRIGGER_DETECTED"

\* slot 0 maps the Spectrum ROM of the machine
SpectrumRomMapped ==
    \/ machine = "48K" /\ map[0] = [kind |-> "Rom", n |-> 0]
    \/ machine = "128K" /\ map[0] = [kind |-> "Rom", n |-> 1]

\* C12: pc_callback(addr) adds TAPE_FAST_LOAD_TRIGGER_DETECTED exactly when
\* addr = ADDR_LD_BREAK and slot 0 maps the Spectrum ROM (Rom(0) on 48K,
\* Rom(1) on 128K), otherwise it leaves the event set as it was; a set event
\* survives every operation but clear_events, and clear_events leaves the
\* event set empty.
C12_TapeTrap ==
    /\ [][\A addr \in PcAddrs :
            PcCallback(addr) =>
                events' = IF addr = ADDR_LD_BREAK /\ SpectrumRomMapped
                          THEN events \cup {FastLoadEvent}
                          ELSE events]_vars
    /\ [][(FastLoadEvent \in events /\ ~ClearEvents) =>
            FastLoadEvent \in events']_vars
    /\ [][ClearEvents => events' = {}]_vars

\* the trap fired on a 128K machine after ROM 1 was paged in
C12_Witness ==
    /\ machine = "128K"
    /\ call = "pc_callback"
    /\ args = <<ADDR_LD_BREAK>>
    /\ map[0] = Rom(1)
    /\ events = {FastLoadEvent}

(***************************************************************************)
(* Claims about the ULA port.                                              *)
(***************************************************************************)
\* bit j of x
Bit(x, j) == (x \div (2 ^ j)) % 2

\* the byte a keyboard read of an even port is to give: bit j is set when
\* every row selected by a 0 bit in the high byte of the port has bit j set,
\* and bit 6 is turned over when mic is on
UlaExpected(port, kb, micv) ==
    LET sel == {n \in 0..7 : Bit(port \div 256, n) = 0}
        anded(j) == IF \A n \in sel : Bit(kb[n], j) = 1 THEN 1 ELSE 0
        out(j) == IF j = 6 /\ micv THEN 1 - anded(j) ELSE anded(j)
    IN  out(0) + 2 * out(1) + 4 * out(2) + 8 * out(3)
          + 16 * out(4) + 32 * out(5) + 64 * out(6) + 128 * out(7)

\* C13: read_io of an even port returns 0xFF ANDed with keyboard[n] for
\* exactly the rows n whose bit n in the high byte of the port is 0, with bit
\* 6 inverted iff mic is on at the read (mic is the tape's bit then: the bit
\* mic already holds unless the tape is running); with only the key of row 0,
\* mask 0x01 down and mic off, port 0xFEFE reads 0xFE; the read changes
\* neither the keyboard, the memory, the map nor the border color.
C13_UlaRead ==
    [][\A port \in UlaReadPorts :
          ReadIo(port) =>
              /\ port % 2 = 0
              /\ \E micv \in BOOLEAN :
                    /\ tape_playing \/ micv = mic
                    /\ ret' = <<"byte", UlaExpected(port, keyboard, micv)>>
              /\ (/\ port = 65278
                  /\ keyboard = [i \in 0..7 |-> IF i = 0 THEN 254 ELSE 255]
                  /\ ~mic /\ ~tape_playing) => ret' = <<"byte", 254>>
              /\ UNCHANGED <<keyboard, rom, ram, map, border_color>>]_vars

\* rows 0 and 7 read together through port 0x7EFE with a key down in each
\* and mic on: 0xFE & 0xEF, bit 6 turned over
C13_Witness ==
    /\ call = "read_io"
    /\ args = <<32510>>
    /\ ~tape_playing
    /\ mic
    /\ keyboard[0] = 254
    /\ keyboard[7] = 239
    /\ ret = <<"byte", 174>>

\* is the port even without the pattern of an AY port
IsUlaWritePort(port) ==
    /\ port % 2 = 0
    /\ ~(Bit(port, 15) = 1 /\ Bit(port, 14) = 1 /\ Bit(port, 1) = 0)
    /\ ~(Bit(port, 15) = 1 /\ Bit(port, 14) = 0 /\ Bit(port, 1) = 0)

\* C14: write_io(port, data) to an even port that has no AY pattern leaves
\* border_color = data & 7 and ear = bit 4 of data when it returns and does
\* no 0x7FFD paging (map, screen_bank and paging_enabled stay); 0x07 written
\* to port 0xFE with a silent tape gives a white border, mic = 0 and ear = 0.
C14_UlaWrite ==
    [][\A w \in UlaWrites :
          (WriteIo(w[1], w[2]) /\ IsUlaWritePort(w[1])) =>
              /\ border_color' = w[2] % 8
              /\ ear' = (Bit(w[2], 4) = 1)
              /\ UNCHANGED <<map, screen_bank, paging_enabled>>
              /\ (w = <<254, 7>> /\ ~tape_playing /\ ~tape_bit) =>
                    (border_color' = 7 /\ ~mic' /\ ~ear')]_vars

\* 0x18 written to port 0xFC of a 128K machine whose paging is enabled: the
\* port also fits the paging pattern, yet the banks stay
C14_Witness ==
    /\ machine = "128K"
    /\ call = "write_io"
    /\ args = <<252, 24>>
    /\ border_color = 0
    /\ ear
    /\ paging_enabled
    /\ screen_bank = 5
    /\ map[0] = Rom(0)

(***************************************************************************)
(* Claims about mic and the tape.                                          *)
(***************************************************************************)
\* the bus operations that advance the clock
ClockCalls == {"wait_internal", "wait_mreq", "wait_no_mreq", "read_io", "write_io"}

\* C20: when a bus operation that advances the clock (wait_internal,
\* wait_mreq, wait_no_mreq, read_io, write_io) returns, mic is the tape's
\* output bit as of the last wait; a ULA port write sets mic from data bit 3,
\* yet the waits that end the same write_io call put the tape's bit over it,
\* while ear keeps the written bit 4.
C20_MicFollowsTape ==
    /\ [][call' \in ClockCalls => mic' = tape_bit']_vars
    /\ [][\A w \in UlaWrites :
            (WriteIo(w[1], w[2]) /\ IsUlaWritePort(w[1])) =>
                /\ mic' = tape_bit'
                /\ ~tape_playing => mic' = tape_bit
                /\ ear' = (Bit(w[2], 4) = 1)]_vars

\* 0x18 (bits 3 and 4) was written to a ULA port while the stopped tape
\* shows 0: ear is on, mic is off
C20_Witness ==
    /\ call = "write_io"
    /\ args = <<252, 24>>
    /\ ~tape_playing
    /\ ~tape_bit
    /\ ~mic
    /\ ear

(***************************************************************************)
(* Claims about the floating bus.                                          *)
(***************************************************************************)
\* does a read of the port reach no device
NoDevicePort(port) ==
    /\ port % 2 = 1
    /\ ~(Bit(port, 15) = 1 /\ Bit(port, 14) = 1 /\ Bit(port, 1) = 0)
    /\ (~kempston \/ Bit(port, 5) = 1)

\* the frame clock at which read_io(port) takes its byte: after both halves
\* of the IO contention
ClockAtRead(port) ==
    IoContentionLast(machine, map, IoContentionFirst(machine, map, Clk, port), port).fc

\* the floating-bus byte for frame clock fc
FloatingExpected(fc) ==
    LET sp == Specs(machine)
        t == fc - (sp.clocks_first_pixel + 2)
        tl == t % sp.clocks_line
        row == t \div sp.clocks_line
        col == (tl \div 8) * 2 + (tl % 8) \div 2
    IN  IF \/ t < 0
           \/ row >= CANVAS_HEIGHT
           \/ tl >= sp.clocks_screen_row - CLOCKS_PER_COL
           \/ Bit(tl, 2) = 1
        THEN 255
        ELSE IF tl % 2 = 0
             THEN MemRead(BitmapLineAddr(row) + col)
             ELSE MemRead(22528 + (row \div 8) * 32 + col)

\* C15: read_io of a port that decodes to no device (odd, without the AY
\* register pattern, Kempston absent or port bit 5 set) returns the
\* floating-bus value for the frame clock at the moment of the read: 0xFF
\* outside the fetch slots, else the bitmap byte (tl even) or the attribute
\* byte (tl odd) of column (tl/8)*2 + (tl%8)/2; it changes no memory,
\* keyboard, border, paging or event state; with frame_clocks = 0 port 0x40FF
\* reads 0xFF.
C15_FloatingBus ==
    [][\A port \in BusPorts :
          (ReadIo(port) /\ NoDevicePort(port)) =>
              /\ ret' = <<"byte", FloatingExpected(ClockAtRead(port))>>
              /\ (port = 16639 /\ frame_clocks = 0) => ret' = <<"byte", 255>>
              /\ UNCHANGED <<memvars, keyboard, border_color, events, ear,
                             paging_enabled, screen_bank, kempston, machine>>]_vars

\* on a 48K machine the read of port 0x00FF came at the slot of row 1,
\* column 2 and gave the bitmap byte stored at 0x4102
C15_Witness ==
    /\ machine = "48K"
    /\ call = "read_io"
    /\ args = <<255>>
    /\ ret = <<"byte", 34>>
    /\ MemRead(16642) = 34

(***************************************************************************)
(* Claims about the rotate micro-operation.                                *)
(***************************************************************************)
\* the codes that move the byte left, in the order RLC, RL, SLA, SLL, and
\* those that move it right, RRC, RR, SRA, SRL
LeftCodes == {0, 2, 4, 6}
RightCodes == {1, 3, 5, 7}

\* the bit the rotation table feeds in at the open end: RLC and RRC the bit
\* shifted out, RL and RR the old C, SLA 0, SLL 1, SRA the old bit 7, SRL 0
RotFeed(code, b, cin) ==
    CASE code = 0 -> Bit(b, 7)
      [] code = 1 -> Bit(b, 0)
      [] code = 2 -> IF cin THEN 1 ELSE 0
      [] code = 3 -> IF cin THEN 1 ELSE 0
      [] code = 4 -> 0
      [] code = 5 -> Bit(b, 7)
      [] code = 6 -> 1
      [] code = 7 -> 0

\* the result byte of the rotation table, bit by bit
RotExpected(code, b, cin) ==
    LET out(j) == IF code \in LeftCodes
                  THEN (IF j = 0 THEN RotFeed(code, b, cin) ELSE Bit(b, j - 1))
                  ELSE (IF j = 7 THEN RotFeed(code, b, cin) ELSE Bit(b, j + 1))
    IN  out(0) + 2 * out(1) + 4 * out(2) + 8 * out(3)
          + 16 * out(4) + 32 * out(5) + 64 * out(6) + 128 * out(7)

\* C16: for every input byte, every incoming C flag and each of the 8 codes
\* execute_rot returns and writes back the byte of the rotation table, and
\* the carry-out is the old bit 7 for RLC, RL, SLA, SLL and the old bit 0 for
\* RRC, RR, SRA, SRL.
C16_RotationTable ==
    [][\A code \in RotCodes :
          ExecuteRot(code, IndirectOperand(RotAddr)) =>
              LET b == MemRead(RotAddr)
                  expected == RotExpected(code, b, flags["Carry"])
              IN  /\ ret' = <<"byte", expected>>
                  /\ MemReadIn(map', rom', ram', RotAddr) = expected
                  /\ flags'["Carry"] =
                        (IF code \in LeftCodes THEN Bit(b, 7) = 1 ELSE Bit(b, 0) = 1)]_vars

\* SRA of a byte with bits 7 and 0 set, 0x85: 0xC2 comes back, is in memory,
\* and C is set
C16_Witness ==
    /\ call = "execute_rot"
    /\ args = <<5, IndirectOperand(RotAddr)>>
    /\ ret = <<"byte", 194>>
    /\ MemRead(RotAddr) = 194
    /\ flags["Carry"]

\* the parity of the byte as the specification's flag has it: set for a byte
\* with an odd number of 1 bits, such as 0x0B
ParityOfResult(b) == Cardinality({j \in 0..7 : Bit(b, j) = 1}) % 2 = 1

\* C17: after execute_rot with any code and input the flags are S = bit 7 of
\* the result, Z = (result = 0), F5 = bit 5, F3 = bit 3, P/V = parity of the
\* result (set as for 0x0B, a byte of three 1 bits), N = 0, C = the carry-out, and
\* HalfCarry set, for all eight codes.
C17_RotationFlags ==
    [][\A code \in RotCodes, r \in RotRegs :
          ExecuteRot(code, RegOperand(r)) =>
              LET res == regs'[r]
              IN  /\ flags'["Sign"] = (Bit(res, 7) = 1)
                  /\ flags'["Zero"] = (res = 0)
                  /\ flags'["F5"] = (Bit(res, 5) = 1)
                  /\ flags'["F3"] = (Bit(res, 3) = 1)
                  /\ flags'["ParityOveflow"] = ParityOfResult(res)
                  /\ flags'["Sub"] = FALSE
                  /\ flags'["Carry"] =
                        (IF code \in LeftCodes
                         THEN Bit(regs[r], 7) = 1 ELSE Bit(regs[r], 0) = 1)
                  /\ flags'["HalfCarry"] = TRUE]_vars

\* SRL brought the register to 0 and shifted a 1 out: Z, C and H set,
\* S, N and P/V (no 1 bit in the result) clear
C17_Witness ==
    /\ call = "execute_rot"
    /\ args = <<7, RegOperand("A")>>
    /\ regs["A"] = 0
    /\ flags["Zero"] /\ flags["Carry"] /\ flags["HalfCarry"]
    /\ ~flags["Sign"] /\ ~flags["Sub"] /\ ~flags["ParityOveflow"]

\* C18: RLC or RRC applied 8 times in a row to one operand brings back the
\* byte it started from, whatever the byte and the flags were, and the C
\* flags the successive applications give repeat with period 8.
C18_PureRotationPeriod ==
    (call = "execute_rot" /\ args[1] \in {0, 1}) =>
        /\ \A i \in 1..Len(trail) :
              i + 8 <= Len(trail) =>
                  /\ trail[i + 8].before = trail[i].before
                  /\ trail[i + 8].carry = trail[i].carry
        /\ Len(trail) >= 8 =>
              OperandValue(args[2]) = trail[Len(trail) - 7].before

\* nine RRC in a row from 0x85: the ninth found 0x85 again and gave C = 1,
\* as the first did
C18_Witness ==
    /\ call = "execute_rot"
    /\ args = <<1, RegOperand("A")>>
    /\ Len(trail) = 9
    /\ trail[1] = [before |-> 133, carry |-> TRUE]
    /\ trail[9] = [before |-> 133, carry |-> TRUE]
    /\ regs["A"] = 194

FrameTime(c) == c.pf * Specs(machine).clocks_frame + c.fc

\* the clock pair k T-states later: a frame is counted when the end of the
\* frame is reached
Later(c, k) ==
    IF c.fc + k >= Specs(machine).clocks_frame
    THEN [fc |-> c.fc + k - Specs(machine).clocks_frame, pf |-> c.pf + 1]
    ELSE [fc |-> c.fc + k, pf |-> c.pf]

\* the stall of the ULA at the frame clock of the pair
Stall(c) == ContentionClocks(machine, c.fc)

\* does the port address lie in a slot that maps a contended RAM bank
PortInContendedRam(port) ==
    LET page == map[port \div PAGE_SIZE]
    IN  page.kind = "Ram" /\ BankIsContended(machine, page.n)

\* the T-states read_io or write_io of the port is to take from the clock of
\* the state: the stalls and T-states of both halves and the trailing one,
\* each stall taken at the frame clock reached by then
IoCost(port) ==
    LET c0 == Clk
        s1 == IF PortInContendedRam(port) THEN Stall(c0) ELSE 0
        c1 == Later(Later(c0, s1), 1)
    IN  IF PortIsContended(machine, port)
        THEN s1 + 1 + (Stall(c1) + 2) + 1
        ELSE IF PortInContendedRam(port)
        THEN LET c2 == Later(c1, Stall(c1) + 1)
                 c3 == Later(c2, Stall(c2) + 1)
             IN  s1 + 1 + (Stall(c1) + 1) + (Stall(c2) + 1) + Stall(c3) + 1
        ELSE s1 + 1 + 2 + 1

\* C21: the total frame time (passed_frames * clocks_frame + frame_clocks)
\* read_io(port) or write_io(port, data) consumes is: one stall if the port
\* address lies in a slot mapping a contended RAM bank, then 1; then stall + 2
\* for a port-contended port, else stall + 1, stall + 1, stall for an
\* address-contended one, else 2; then 1; each stall taken at the frame clock
\* of its moment.  A port of neither kind costs exactly 4 T-states.
C21_IoTiming ==
    [][\A port \in IoTimePorts \cup {32765} : \A data \in IoTimePaging :
          (ReadIo(port) \/ WriteIo(port, data)) =>
              /\ FrameTime([fc |-> frame_clocks', pf |-> passed_frames'])
                    = FrameTime(Clk) + IoCost(port)
              /\ (~PortIsContended(machine, port) /\ ~PortInContendedRam(port)) =>
                    FrameTime([fc |-> frame_clocks', pf |-> passed_frames'])
                      = FrameTime(Clk) + 4]_vars

\* a 128K machine has read a port of slot 3, which maps the contended bank 1,
\* from the first contended clock of the frame: 6 stalled T-states, 1, then
\* 0 + 1, 6 + 1, 0 and the trailing 1
C21_Witness ==
    /\ machine = "128K"
    /\ call = "read_io"
    /\ args = <<49407>>
    /\ map[3] = Ram(1)
    /\ passed_frames = 0
    /\ frame_clocks = 22

(***************************************************************************)
(* Claims about the contents of the RAM banks.                             *)
(***************************************************************************)
\* the maps one remap or one 0x7FFD paging write away from m
MapsNext(m) ==
    {RemapMap(m, b, p) : b \in BankBlocks, p \in BankPages}
        \cup {Write7ffdMap(m, v) : v \in BankPaging}

\* the maps up to three remaps or paging writes away from m
MapsAfter(m) ==
    LET m1 == {m} \cup MapsNext(m)
        m2 == m1 \cup UNION {MapsNext(x) : x \in m1}
    IN  m2 \cup UNION {MapsNext(x) : x \in m2}

\* the byte at the offset is read as v through every slot m maps to the page
ReadBack(m, r_rom, r_ram, page, offset, v) ==
    \A s \in 0..(MEM_BLOCKS - 1) :
        m[s] = page => MemReadIn(m, r_rom, r_ram, s * PAGE_SIZE + offset) = v

\* C22: the contents of a RAM bank do not depend on the mapping: a byte
\* written at offset o of bank b through any slot is read back at offset o
\* through every slot mapped to Ram(b), also after remaps and 0x7FFD paging
\* writes that page the bank out and back in; remap and paging change no
\* byte of the ROM or RAM pool.
C22_BankContents ==
    [][/\ \A a \in BankAddrs, v \in BankBytes :
             (MemWriteOp(a, v) /\ map[SlotOf(a)].kind = "Ram") =>
                 \A m \in MapsAfter(map') :
                     ReadBack(m, rom', ram', map[SlotOf(a)], AddrRel(a), v)
       /\ ((\E b \in BankBlocks, p \in BankPages : MemRemapOp(b, p))
              \/ (\E val \in BankPaging : MemPagingOp(val))) =>
                 /\ rom' = rom
                 /\ ram' = ram
                 /\ \A s \in 0..(MEM_BLOCKS - 1), a \in BankAddrs :
                        map[s].kind = "Ram" =>
                            ReadBack(map', rom', ram', map[s], AddrRel(a),
                                     MemRead(s * PAGE_SIZE + AddrRel(a)))]_vars

\* slot 3 has just been remapped to bank 0, which slot 1 maps too, and the
\* 165 written to offset 1 of the bank is read through both slots
C22_Witness ==
    /\ ram_size = SIZE_128K
    /\ call = "remap"
    /\ args = <<3, Ram(0)>>
    /\ map[1] = Ram(0)
    /\ map[3] = Ram(0)
    /\ map[2] = Ram(2)
    /\ MemRead(16385) = 165
    /\ MemRead(49153) = 165
    /\ MemRead(32769) = 0

=============================================================================
